---- MODULE Spec2Model ----
(***************************************************************************)
(* zcc: a driver that preprocesses a C file, lexes it, parses it with an   *)
(* event-based parser engine, builds a concrete syntax tree, lowers it to  *)
(* an instruction list and emits assembly text (src/src/main.rs).          *)
(*                                                                         *)
(* A text is a sequence of characters; a character is a one-element        *)
(* string, except the three non-ASCII characters, which are named by       *)
(* their code point.  Utf8Len gives the encoded width of a character.      *)
(***************************************************************************)
EXTENDS Integers, Sequences, FiniteSets, TLC

VARIABLES
    step,        \* cli.step: "none", "lex", "parse" or "codegen"
    text,        \* contents of the preprocessed file
    pc,          \* position of the running function
    exitStatus,  \* process exit status, meaningful once pc = "exit"
    diagnostic,  \* the message of the fault that ended the run, or ""
    prep_file,   \* TRUE while the .i file exists
    ass_file,    \* the .s file: [written, bytes]
    assemble,    \* TRUE once the assembler/linker has been invoked
    input,       \* lexer: the rest of the text still to scan
    token,       \* lexer: the tokens pushed so far
    tokens,      \* main: the vector returned by lexer
    parser,      \* Parser {tokens, pos, fuel, events}
    marks,       \* the MarkOpened locals of the active grammar rules
    ret,         \* the value returned by the last engine call
    tree,        \* main: the tree returned by build_tree
    asm_tree     \* main: the program returned by generate_assembly

vars == <<step, text, pc, exitStatus, diagnostic, prep_file, ass_file, assemble,
          input, token, tokens, parser, marks, ret, tree, asm_tree>>

----------------------------------------------------------------------------
(* Bounds of the model *)

\* longest text enumerated exhaustively for the lexer
MaxTextLen == 4
\* most function definitions in a text given to the driver
MaxFunctions == 2
\* most tokens of a parser driven by an arbitrary rule
MaxEngineTokens == 2
\* longest constant enumerated exhaustively for the lowering
MaxDigits == 2

----------------------------------------------------------------------------
(* Characters *)

Lower == {"a","b","c","d","e","f","g","h","i","j","k","l","m",
          "n","o","p","q","r","s","t","u","v","w","x","y","z"}
Upper == {"A","B","C","D","E","F","G","H","I","J","K","L","M",
          "N","O","P","Q","R","S","T","U","V","W","X","Y","Z"}
Digit == {"0","1","2","3","4","5","6","7","8","9"}

\* e-acute: a letter outside ASCII (2 bytes); the euro sign: not a letter
\* (3 bytes); the no-break space: white space outside ASCII (2 bytes)
EAcute == "U+00E9"
Euro == "U+20AC"
Nbsp == "U+00A0"

Utf8Len(c) == IF c \in {EAcute, Nbsp} THEN 2 ELSE IF c = Euro THEN 3 ELSE 1

\* char::is_whitespace
is_whitespace(c) == c \in {" ", "\t", "\n", "\r", Nbsp}

\* [a-zA-Z_]
IsIdentStart(c) == c \in Lower \cup Upper \cup {"_"}

\* \w of the regex crate: Unicode letters and digits, and the underscore
IsWord(c) == c \in Lower \cup Upper \cup Digit \cup {"_", EAcute}

\* \b at offset j of s (between s[j] and s[j+1])
IsWordBoundary(s, j) ==
    ((j >= 1) /\ IsWord(s[j])) # ((j < Len(s)) /\ IsWord(s[j + 1]))

IsPrefix(w, s) == Len(w) <= Len(s) /\ \A i \in 1..Len(w) : s[i] = w[i]

Drop(s, n) == SubSeq(s, n + 1, Len(s))
Take(s, n) == SubSeq(s, 1, n)

----------------------------------------------------------------------------
(* Tokens *)

TokenKind == {"Identifier", "Constant", "Keyword", "OpenParen", "CloseParen",
              "OpenBrace", "CloseBrace", "Semicolon", "Eof", "ErrorToken"}

Token(kind, txt) == [kind |-> kind, text |-> txt]

kw_void == <<"v","o","i","d">>
kw_int == <<"i","n","t">>
kw_return == <<"r","e","t","u","r","n">>

\* the alternatives of the keyword regex, in its order
KeywordAlternatives == <<kw_void, kw_int, kw_return>>

----------------------------------------------------------------------------
(* The lexer's three regexes.  Each gives the length of the match at the  *)
(* start of s, or 0 when there is none (no pattern matches the empty      *)
(* string).                                                               *)

\* the longest j <= n at which the pattern's trailing \b holds, after the
\* greedy run of n characters has backed off as far as needed
LongestBoundary(s, n) ==
    LET ok == {j \in 1..n : IsWordBoundary(s, j)}
    IN  IF ok = {} THEN 0 ELSE CHOOSE j \in ok : \A k \in ok : k <= j

\* index of the last character of the run of digits (or of \w characters,
\* when wordRun) that starts at index i of s; i - 1 when the run is empty
RECURSIVE RunFrom(_, _, _)
RunFrom(s, i, wordRun) ==
    IF i > Len(s) THEN i - 1
    ELSE IF (IF wordRun THEN IsWord(s[i]) ELSE s[i] \in Digit)
         THEN RunFrom(s, i + 1, wordRun)
         ELSE i - 1

\* ^([0-9]+)\b
constant_match(s) == LongestBoundary(s, RunFrom(s, 1, FALSE))

\* ^([a-zA-Z_]\w*)\b
identifier_match(s) ==
    IF s # <<>> /\ IsIdentStart(s[1])
    THEN LongestBoundary(s, RunFrom(s, 2, TRUE))
    ELSE 0

\* the keyword regex without its \b
KeywordBoundary_unanchored(s, w) == TRUE

KeywordBoundary(s, w) == IsWordBoundary(s, Len(w))

\* ^(void|int|return)\b: the first alternative that matches
keyword_match(s) ==
    LET ok == {i \in 1..Len(KeywordAlternatives) :
                  /\ IsPrefix(KeywordAlternatives[i], s)
                  /\ KeywordBoundary(s, KeywordAlternatives[i])}
    IN  IF ok = {} THEN 0
        ELSE Len(KeywordAlternatives[CHOOSE i \in ok : \A k \in ok : i <= k])

----------------------------------------------------------------------------
(* lexer: one turn of its while loop, on the rest of the input and the    *)
(* tokens pushed so far.  Slicing a str at a byte offset inside a         *)
(* character panics.                                                      *)

\* input = &input[1..]
SliceOne(in, tok) ==
    IF Utf8Len(in[1]) = 1
    THEN [input |-> Tail(in), token |-> tok, panic |-> FALSE]
    ELSE [input |-> in, token |-> tok, panic |-> TRUE]

LexerLoop(in, tok) ==
    LET char == in[1]
        punct(t) == SliceOne(in, Append(tok, t))
    IN  IF is_whitespace(char) THEN SliceOne(in, tok)
        ELSE IF char = "(" THEN punct(Token("OpenParen", <<"(">>))
        ELSE IF char = ")" THEN punct(Token("CloseParen", <<")">>))
        ELSE IF char = "{" THEN punct(Token("OpenBrace", <<"{">>))
        ELSE IF char = "}" THEN punct(Token("CloseBrace", <<"}">>))
        ELSE IF char = ";" THEN punct(Token("Semicolon", <<";">>))
        ELSE IF constant_match(in) > 0
             THEN [input |-> Drop(in, constant_match(in)),
                   token |-> Append(tok, Token("Constant", Take(in, constant_match(in)))),
                   panic |-> FALSE]
        ELSE IF identifier_match(in) > 0
             THEN IF keyword_match(in) > 0
                  THEN [input |-> Drop(in, keyword_match(in)),
                        token |-> Append(tok, Token("Keyword", Take(in, keyword_match(in)))),
                        panic |-> FALSE]
                  ELSE [input |-> Drop(in, identifier_match(in)),
                        token |-> Append(tok, Token("Identifier", Take(in, identifier_match(in)))),
                        panic |-> FALSE]
        ELSE SliceOne(in, Append(tok, Token("ErrorToken", <<>>)))

\* lexer(text): the loop run to its end
RECURSIVE LexerRun(_, _)
LexerRun(in, tok) ==
    IF in = <<>> THEN [token |-> tok, panic |-> FALSE]
    ELSE LET r == LexerLoop(in, tok)
         IN  IF r.panic THEN [token |-> r.token, panic |-> TRUE]
             ELSE LexerRun(r.input, r.token)

lexer(txt) == LexerRun(txt, <<>>)

----------------------------------------------------------------------------
(* Parser engine.  A parser is [tokens, pos, fuel, events]; pos and mark  *)
(* indexes count from 0 as in the source.  Every operation returns        *)
(* [p, ret, fault, code]: the parser after the call, the value returned,  *)
(* and, when the call does not return, the diagnostic and the exit status *)
(* of the process (101 for a panic).                                      *)

FuelCeiling == 256

TreeKind == {"Program", "Function", "Return", "ErrorTree"}

Open(kind) == [type |-> "Open", kind |-> kind]
Close == [type |-> "Close"]
Advance == [type |-> "Advance"]

Unit == <<>>

Returned(p, value) == [p |-> p, ret |-> value, fault |-> "", code |-> 0]
Panicked(p, msg) == [p |-> p, ret |-> Unit, fault |-> msg, code |-> 101]
Exited(p, msg, code) == [p |-> p, ret |-> Unit, fault |-> msg, code |-> code]

new(toks) == [tokens |-> toks, pos |-> 0, fuel |-> FuelCeiling, events |-> <<>>]

eof(p) == p.pos = Len(p.tokens)

\* open that hands out the mark without logging the event
open_unlogged(p) == Returned(p, [index |-> Len(p.events)])

open(p) ==
    Returned([p EXCEPT !.events = Append(@, Open("ErrorTree"))],
             [index |-> Len(p.events)])

\* advance that does not refill the fuel
advance_keeps_fuel(p) ==
    IF eof(p) THEN Panicked(p, "assertion failed: !self.eof()")
    ELSE Returned([p EXCEPT !.events = Append(@, Advance), !.pos = @ + 1], Unit)

\* advance that moves the cursor without logging the event
advance_unlogged(p) ==
    IF eof(p) THEN Panicked(p, "assertion failed: !self.eof()")
    ELSE Returned([p EXCEPT !.fuel = FuelCeiling, !.pos = @ + 1], Unit)

advance(p) ==
    IF eof(p) THEN Panicked(p, "assertion failed: !self.eof()")
    ELSE Returned([p EXCEPT !.fuel = FuelCeiling,
                            !.events = Append(@, Advance),
                            !.pos = @ + 1], Unit)

\* close that leaves the placeholder kind of the mark
close_keeps_placeholder(p, m, kind) ==
    IF m.index >= Len(p.events) THEN Panicked(p, "index out of bounds")
    ELSE Returned([p EXCEPT !.events = Append(@, Close)], Unit)

close(p, m, kind) ==
    IF m.index >= Len(p.events) THEN Panicked(p, "index out of bounds")
    ELSE Returned([p EXCEPT !.events =
                       Append([@ EXCEPT ![m.index + 1] = Open(kind)], Close)],
                  Unit)

\* a lookahead that always looks at the current token
nth_current(p, lookahead) ==
    IF p.fuel = 0 THEN Panicked(p, "parser is stuck")
    ELSE Returned([p EXCEPT !.fuel = @ - 1],
                  IF p.pos < Len(p.tokens)
                  THEN p.tokens[p.pos + 1].kind
                  ELSE "Eof")

\* a lookahead that takes no fuel
nth_free(p, lookahead) ==
    IF p.fuel = 0 THEN Panicked(p, "parser is stuck")
    ELSE Returned(p,
                  IF p.pos + lookahead < Len(p.tokens)
                  THEN p.tokens[p.pos + lookahead + 1].kind
                  ELSE "Eof")

nth(p, lookahead) ==
    IF p.fuel = 0 THEN Panicked(p, "parser is stuck")
    ELSE Returned([p EXCEPT !.fuel = @ - 1],
                  IF p.pos + lookahead < Len(p.tokens)
                  THEN p.tokens[p.pos + lookahead + 1].kind
                  ELSE "Eof")

\* at that answers true whatever the current token
at_any(p, kind) ==
    LET r == nth(p, 0)
    IN  IF r.fault # "" THEN r ELSE Returned(r.p, TRUE)

at(p, kind) ==
    LET r == nth(p, 0)
    IN  IF r.fault # "" THEN r ELSE Returned(r.p, r.ret = kind)

\* eat that gives back the fuel of its lookahead when it does not consume
eat_refuels(p, kind) ==
    LET r == at(p, kind)
    IN  IF r.fault # "" THEN r
        ELSE IF r.ret
             THEN LET a == advance(r.p)
                  IN  IF a.fault # "" THEN a ELSE Returned(a.p, TRUE)
             ELSE Returned([r.p EXCEPT !.fuel = FuelCeiling], FALSE)

eat(p, kind) ==
    LET r == at(p, kind)
    IN  IF r.fault # "" THEN r
        ELSE IF r.ret
             THEN LET a == advance(r.p)
                  IN  IF a.fault # "" THEN a ELSE Returned(a.p, TRUE)
             ELSE Returned(r.p, FALSE)

expect(p, kind) ==
    LET r == eat(p, kind)
    IN  IF r.fault # "" THEN r
        ELSE IF r.ret THEN Returned(r.p, Unit)
        ELSE Exited(r.p, "expected " \o kind, 1)

----------------------------------------------------------------------------
(* build_tree.  A tree is [kind, children]; a child is a token or a tree. *)

Tree(kind, children) == [kind |-> kind, children |-> children]
ChildToken(t) == [tag |-> "Token", token |-> t]
ChildTree(t) == [tag |-> "Tree", tree |-> t]

NoTree == Tree("", <<>>)

Pop(s) == SubSeq(s, 1, Len(s) - 1)
Last(s) == s[Len(s)]

\* a push that puts the child before the children already there
PushChild_front(stack, child) ==
    [stack EXCEPT ![Len(stack)].children = <<child>> \o @]

\* stack.last_mut().unwrap().children.push(child)
PushChild(stack, child) ==
    [stack EXCEPT ![Len(stack)].children = Append(@, child)]

\* the for loop over the events, from event i, with n tokens taken so far
RECURSIVE BuildLoop(_, _, _, _, _)
BuildLoop(events, i, stack, toks, n) ==
    IF i > Len(events) THEN [fault |-> "", stack |-> stack, taken |-> n]
    ELSE LET event == events[i]
             bad(msg) == [fault |-> msg, stack |-> stack, taken |-> n]
         IN  IF event.type = "Open"
             THEN BuildLoop(events, i + 1, Append(stack, Tree(event.kind, <<>>)),
                            toks, n)
             ELSE IF event.type = "Close"
             THEN IF Len(stack) = 0 THEN bad("called unwrap on None: pop")
                  ELSE IF Len(stack) = 1 THEN bad("called unwrap on None: last_mut")
                  ELSE BuildLoop(events, i + 1,
                                 PushChild(Pop(stack), ChildTree(Last(stack))),
                                 toks, n)
             ELSE IF n >= Len(toks) THEN bad("called unwrap on None: next")
                  ELSE IF Len(stack) = 0 THEN bad("called unwrap on None: last_mut")
                  ELSE BuildLoop(events, i + 1,
                                 PushChild(stack, ChildToken(toks[n + 1])),
                                 toks, n + 1)

\* build_tree that does not pop the last Close off the log
build_tree_whole_log(p) ==
    IF p.events = <<>> \/ Last(p.events) # Close
    THEN [fault |-> "assertion failed: last event is Close", tree |-> NoTree]
    ELSE LET r == BuildLoop(p.events, 1, <<>>, p.tokens, 0)
         IN  IF r.fault # "" THEN [fault |-> r.fault, tree |-> NoTree]
             ELSE IF Len(r.stack) # 1
             THEN [fault |-> "assertion failed: stack.len() == 1", tree |-> NoTree]
             ELSE IF r.taken # Len(p.tokens)
             THEN [fault |-> "assertion failed: tokens.next().is_none()",
                   tree |-> NoTree]
             ELSE [fault |-> "", tree |-> Last(r.stack)]

\* [fault, tree]
build_tree(p) ==
    IF p.events = <<>> \/ Last(p.events) # Close
    THEN [fault |-> "assertion failed: last event is Close", tree |-> NoTree]
    ELSE LET r == BuildLoop(Pop(p.events), 1, <<>>, p.tokens, 0)
         IN  IF r.fault # "" THEN [fault |-> r.fault, tree |-> NoTree]
             ELSE IF Len(r.stack) # 1
             THEN [fault |-> "assertion failed: stack.len() == 1", tree |-> NoTree]
             ELSE IF r.taken # Len(p.tokens)
             THEN [fault |-> "assertion failed: tokens.next().is_none()",
                   tree |-> NoTree]
             ELSE [fault |-> "", tree |-> Last(r.stack)]

----------------------------------------------------------------------------
(* u32.  A value is [hi, lo], the two 16-bit halves of the word, so that  *)
(* the arithmetic of parse and to_string stays inside the integers.       *)

Half == 2 ^ 16

U32(hi, lo) == [hi |-> hi, lo |-> lo]

DigitValue(c) == CHOOSE d \in 0..9 : ToString(d) = c
DigitChar(d) == ToString(d)

\* wrapping_mul(10) then wrapping_add(d): the overflow is never reported
MulAdd_wrapping(v, d) ==
    LET low == v.lo * 10 + d
        high == v.hi * 10 + (low \div Half)
    IN  [overflow |-> FALSE, value |-> U32(high % Half, low % Half)]

\* checked_mul(10) then checked_add(d): [overflow, value]
MulAdd(v, d) ==
    LET low == v.lo * 10 + d
        high == v.hi * 10 + (low \div Half)
    IN  [overflow |-> high >= Half, value |-> U32(high % Half, low % Half)]

\* str::parse::<u32> on a run of digits: [err, value]
RECURSIVE ParseFrom(_, _, _)
ParseFrom(txt, i, v) ==
    IF i > Len(txt) THEN [err |-> FALSE, value |-> v]
    ELSE IF txt[i] \notin Digit THEN [err |-> TRUE, value |-> v]
    ELSE LET r == MulAdd(v, DigitValue(txt[i]))
         IN  IF r.overflow THEN [err |-> TRUE, value |-> v]
             ELSE ParseFrom(txt, i + 1, r.value)

parse(txt) ==
    IF txt = <<>> THEN [err |-> TRUE, value |-> U32(0, 0)]
    ELSE ParseFrom(txt, 1, U32(0, 0))

\* u32::to_string: the decimal digits, most significant first
RECURSIVE DigitsOf(_)
DigitsOf(v) ==
    LET qh == v.hi \div 10
        mid == (v.hi % 10) * Half + v.lo
        q == U32(qh, mid \div 10)
        d == mid % 10
    IN  IF q = U32(0, 0) THEN <<DigitChar(d)>>
        ELSE Append(DigitsOf(q), DigitChar(d))

to_string(v) == DigitsOf(v)

----------------------------------------------------------------------------
(* Lowering: generate_assembly, generate_function, generate_return.       *)
(* Each returns [fault, value].                                           *)

Imm(v) == [op |-> "Imm", value |-> v]
Register == [op |-> "Register"]
Mov(src, dst) == [ins |-> "Mov", src |-> src, dst |-> dst]
Ret == [ins |-> "Ret"]
ASMFunction(identifier, instructions) ==
    [identifier |-> identifier, instructions |-> instructions]
ASMProgram(f) == [function |-> f]

NoProgram == ASMProgram(ASMFunction(<<>>, <<>>))

\* tree.children.get(i): i counts from 0
HasTokenAt(t, i, kind) ==
    /\ i < Len(t.children)
    /\ t.children[i + 1].tag = "Token"
    /\ t.children[i + 1].token.kind = kind

HasTreeAt(t, i) ==
    /\ i < Len(t.children)
    /\ t.children[i + 1].tag = "Tree"

generate_return(t) ==
    IF t.kind # "Return"
    THEN [fault |-> "should have been a function.", value |-> <<>>]
    ELSE IF ~HasTokenAt(t, 1, "Constant")
    THEN [fault |-> "No constant found where one was expected", value |-> <<>>]
    ELSE LET n == parse(t.children[2].token.text)
         IN  IF n.err
             THEN [fault |-> "called unwrap on an Err value", value |-> <<>>]
             ELSE [fault |-> "", value |-> <<Mov(Imm(n.value), Register), Ret>>]

generate_function(t) ==
    IF t.kind # "Function"
    THEN [fault |-> "should have been a function.", value |-> NoProgram.function]
    ELSE IF ~HasTokenAt(t, 1, "Identifier")
    THEN [fault |-> "could not find identifier", value |-> NoProgram.function]
    ELSE IF ~HasTreeAt(t, 6)
    THEN [fault |-> "could not find body", value |-> NoProgram.function]
    ELSE LET r == generate_return(t.children[7].tree)
         IN  IF r.fault # "" THEN [fault |-> r.fault, value |-> NoProgram.function]
             ELSE [fault |-> "",
                   value |-> ASMFunction(t.children[2].token.text, r.value)]

generate_assembly(t) ==
    IF t.kind # "Program"
    THEN [fault |-> "should have been a program here.", value |-> NoProgram]
    ELSE IF ~HasTreeAt(t, 0)
    THEN [fault |-> "Should have had a Tree Child", value |-> NoProgram]
    ELSE LET r == generate_function(t.children[1].tree)
         IN  IF r.fault # "" THEN [fault |-> r.fault, value |-> NoProgram]
             ELSE [fault |-> "", value |-> ASMProgram(r.value)]

----------------------------------------------------------------------------
(* Emission: the bytes of the assembly text, one element per character.   *)

\* an immediate written without its $
emit_op_bare(op) ==
    IF op.op = "Imm" THEN to_string(op.value)
    ELSE <<"%", "e", "a", "x">>

emit_op(op) ==
    IF op.op = "Imm" THEN <<"$">> \o to_string(op.value)
    ELSE <<"%", "e", "a", "x">>

emit_instruction(i) ==
    IF i.ins = "Mov"
    THEN <<"\t", "m", "o", "v", "l", "\t">> \o emit_op(i.src) \o <<",", " ">>
         \o emit_op(i.dst) \o <<"\n">>
    ELSE <<"\t", "r", "e", "t", "\n">>

RECURSIVE EmitAll(_, _)
EmitAll(instructions, i) ==
    IF i > Len(instructions) THEN <<>>
    ELSE emit_instruction(instructions[i]) \o EmitAll(instructions, i + 1)

emit_program(asm) ==
    <<"\t", ".", "g", "l", "o", "b", "l", "\t", "_">>
    \o asm.function.identifier \o <<"\n">>
    \o <<"_">> \o asm.function.identifier \o <<":", "\n">>
    \o EmitAll(asm.function.instructions, 1)

----------------------------------------------------------------------------
(* Inputs *)

Steps == {"none", "lex", "parse", "codegen"}

main_name == <<"m","a","i","n">>
space == <<" ">>

\* int main(void){return 2;} as its lexemes
FunctionLexemes ==
    <<kw_int, space, main_name, <<"(">>, kw_void, <<")">>, <<"{">>,
      kw_return, space, <<"2">>, <<";">>, <<"}">> >>

\* int main(int){void 2;} as its lexemes
KeywordSample ==
    <<kw_int, space, main_name, <<"(">>, kw_int, <<")">>, <<"{">>,
      kw_void, space, <<"2">>, <<";">>, <<"}">> >>

\* what one lexeme of a text may be replaced by (<<>>: the lexeme is dropped)
Words ==
    {kw_int, kw_void, kw_return, main_name, <<"x", "_", "1">>, <<"2">>,
     <<"0", "0", "7">>,
     <<"4","2","9","4","9","6","7","2","9","5">>,
     <<"4","2","9","4","9","6","7","2","9","6">>,
     <<"(">>, <<")">>, <<"{">>, <<"}">>, <<";">>, space, <<"\n">>,
     <<"@">>, <<EAcute>>, <<"m", EAcute>>, <<Nbsp>>, <<>>}

RECURSIVE Repeat(_, _)
Repeat(s, n) == IF n = 0 THEN <<>> ELSE s \o Repeat(s, n - 1)

RECURSIVE Flatten(_)
Flatten(ss) == IF ss = <<>> THEN <<>> ELSE Head(ss) \o Flatten(Tail(ss))

\* the texts with up to MaxFunctions function definitions, those texts
\* with one lexeme replaced, and the sample with other reserved words
Texts ==
    LET lexemes(n) == Repeat(FunctionLexemes, n)
    IN  {Flatten(lexemes(n)) : n \in 0..MaxFunctions}
        \cup {Flatten(KeywordSample)}
        \cup UNION {UNION {{Flatten([lexemes(n) EXCEPT ![i] = w]) : w \in Words}
                           : i \in 1..Len(lexemes(n))}
                    : n \in 0..MaxFunctions}

LexAlphabet == {"i", "n", "t", "2", " ", "(", "@", EAcute}

SampleTexts ==
    {Flatten(FunctionLexemes),
     Flatten([FunctionLexemes EXCEPT ![10] = <<"@">>]),
     <<"i", "n", "t", "x">>,
     <<"r", "e", "t", "u", "r", "n", "2">>,
     <<"v", "o", "i", "d", "\n", "_", "a", "B", "9", "\t", "4", "2", ";">>,
     <<"{", Euro, "}">>, <<"2", Nbsp, "2">>}

\* every text of at most MaxTextLen characters of LexAlphabet, and the samples
LexTexts ==
    UNION {[1..n -> LexAlphabet] : n \in 0..MaxTextLen} \cup SampleTexts

\* the tokens an arbitrary rule is run on
EngineTokenSet == {Token("Keyword", kw_int), Token("Constant", <<"2">>)}
EngineTokens == UNION {[1..n -> EngineTokenSet] : n \in 0..MaxEngineTokens}
EngineKinds == {"Keyword", "Constant", "Eof"}

----------------------------------------------------------------------------
(* State *)

NoFile == [written |-> FALSE, bytes |-> <<>>]
NoParser == new(<<>>)
NoRet == [op |-> "", val |-> Unit]

InitCommon ==
    /\ exitStatus = 0
    /\ diagnostic = ""
    /\ prep_file = FALSE
    /\ ass_file = NoFile
    /\ assemble = FALSE
    /\ token = <<>>
    /\ tokens = <<>>
    /\ marks = <<>>
    /\ ret = NoRet
    /\ tree = NoTree
    /\ asm_tree = NoProgram

\* the process ends with this status and diagnostic
Exit(code, msg) ==
    /\ pc' = "exit"
    /\ exitStatus' = code
    /\ diagnostic' = msg

Running(next) ==
    /\ pc' = next
    /\ UNCHANGED <<exitStatus, diagnostic>>

\* the parser takes the outcome r of an engine call named op
Call(op, r, next) ==
    /\ parser' = r.p
    /\ IF r.fault # ""
       THEN Exit(r.code, r.fault) /\ UNCHANGED ret
       ELSE Running(next) /\ ret' = [op |-> op, val |-> r.ret]

----------------------------------------------------------------------------
(* The lexer, one turn of its loop per step (specification SpecLex) *)

InitLex ==
    /\ InitCommon
    /\ step = "lex"
    /\ text \in LexTexts
    /\ input = text
    /\ pc = "lexer"
    /\ parser = NoParser

LexerStep ==
    /\ pc = "lexer"
    /\ input # <<>>
    /\ LET r == LexerLoop(input, token)
       IN  /\ token' = r.token
           /\ input' = r.input
           /\ IF r.panic
              THEN Exit(101, "byte index 1 is not a char boundary")
              ELSE Running("lexer")
    /\ UNCHANGED <<step, text, prep_file, ass_file, assemble, tokens, parser,
                   marks, ret, tree, asm_tree>>

LexerReturn ==
    /\ pc = "lexer"
    /\ input = <<>>
    /\ tokens' = token
    /\ Running("lexer_done")
    /\ UNCHANGED <<step, text, prep_file, ass_file, assemble, input, token,
                   parser, marks, ret, tree, asm_tree>>

NextLex == LexerStep \/ LexerReturn

SpecLex == InitLex /\ [][NextLex]_vars

----------------------------------------------------------------------------
(* The engine under an arbitrary rule: any call, in any order             *)
(* (specification SpecEngine)                                             *)

InitEngine ==
    /\ InitCommon
    /\ step = "none"
    /\ text = <<>>
    /\ input = <<>>
    /\ pc = "rule"
    /\ \E toks \in EngineTokens : parser = new(toks)

EngineFrame ==
    UNCHANGED <<step, text, prep_file, ass_file, assemble, input, token, tokens,
                marks, tree, asm_tree>>

EngineNth ==
    /\ pc = "rule"
    /\ \E lookahead \in 0..MaxEngineTokens : Call("nth", nth(parser, lookahead), "rule")
    /\ EngineFrame

EngineAt ==
    /\ pc = "rule"
    /\ \E kind \in EngineKinds : Call("at", at(parser, kind), "rule")
    /\ EngineFrame

EngineEat ==
    /\ pc = "rule"
    /\ \E kind \in EngineKinds : Call("eat", eat(parser, kind), "rule")
    /\ EngineFrame

EngineExpect ==
    /\ pc = "rule"
    /\ \E kind \in EngineKinds : Call("expect", expect(parser, kind), "rule")
    /\ EngineFrame

EngineAdvance ==
    /\ pc = "rule"
    /\ Call("advance", advance(parser), "rule")
    /\ EngineFrame

NextEngine ==
    EngineNth \/ EngineAt \/ EngineEat \/ EngineExpect \/ EngineAdvance

SpecEngine == InitEngine /\ [][NextEngine]_vars

\* a rule that keeps calling the lookahead
Lookahead == EngineNth \/ EngineAt

FairSpecEngine == SpecEngine /\ WF_vars(Lookahead)

----------------------------------------------------------------------------
(* The driver (specification Spec): main, and the grammar rules it runs   *)
(* one engine call per step.                                              *)

Init ==
    /\ InitCommon
    /\ step \in Steps
    /\ text \in Texts
    /\ input = <<>>
    /\ pc = "main"
    /\ parser = NoParser

MainFrame ==
    UNCHANGED <<step, text, input, token, marks, ret>>

\* gcc -E -P writes the .i file
Preprocess ==
    /\ pc = "main"
    /\ prep_file' = TRUE
    /\ Running("lexing")
    /\ UNCHANGED <<ass_file, assemble, tokens, parser, tree, asm_tree>>
    /\ MainFrame

\* let tokens = lexer(text)
Lexing ==
    /\ pc = "lexing"
    /\ LET r == lexer(text)
       IN  IF r.panic
           THEN /\ Exit(101, "byte index 1 is not a char boundary")
                /\ UNCHANGED tokens
           ELSE /\ tokens' = r.token
                /\ Running(IF step = "lex" THEN "lex_stop" ELSE "parser_new")
    /\ UNCHANGED <<prep_file, ass_file, assemble, parser, tree, asm_tree>>
    /\ MainFrame

HasErrorToken(toks) == \E i \in 1..Len(toks) : toks[i].kind = "ErrorToken"

\* a --lex stop that ignores the ErrorTokens
LexStop_ignores_errors ==
    /\ pc = "lex_stop"
    /\ prep_file' = FALSE
    /\ Exit(0, "")
    /\ UNCHANGED <<ass_file, assemble, tokens, parser, tree, asm_tree>>
    /\ MainFrame

\* if cli.step.lex { ... }
LexStop ==
    /\ pc = "lex_stop"
    /\ prep_file' = FALSE
    /\ IF HasErrorToken(tokens) THEN Exit(1, "") ELSE Exit(0, "")
    /\ UNCHANGED <<ass_file, assemble, tokens, parser, tree, asm_tree>>
    /\ MainFrame

\* let mut parser = Parser::new(tokens)
ParserNew ==
    /\ pc = "parser_new"
    /\ parser' = new(tokens)
    /\ Running("parse_program")
    /\ UNCHANGED <<prep_file, ass_file, assemble, tokens, tree, asm_tree>>
    /\ MainFrame

RuleFrame ==
    UNCHANGED <<step, text, input, token, tokens, prep_file, ass_file, assemble,
                tree, asm_tree>>

\* let m = p.open()
OpenMark(here, next) ==
    /\ pc = here
    /\ Call("open", open(parser), next)
    /\ marks' = Append(marks, open(parser).ret)
    /\ RuleFrame

\* p.close(m, kind), m the mark of the rule that returns
CloseMark(here, kind, next) ==
    /\ pc = here
    /\ Call("close", close(parser, Last(marks), kind), next)
    /\ marks' = Pop(marks)
    /\ RuleFrame

\* p.expect(kind): the lookahead of eat, then its advance
Expect(here, kind, next) ==
    \/ /\ pc = here
       /\ LET r == at(parser, kind)
          IN  IF r.fault = "" /\ ~r.ret
              THEN Call("expect", Exited(r.p, "expected " \o kind, 1), next)
              ELSE Call("at", r, here \o ".advance")
       /\ UNCHANGED marks
       /\ RuleFrame
    \/ /\ pc = here \o ".advance"
       /\ Call("expect", advance(parser), next)
       /\ UNCHANGED marks
       /\ RuleFrame

parse_program ==
    \/ OpenMark("parse_program", "parse_program.while")
    \/ /\ pc = "parse_program.while"
       /\ Running(IF eof(parser) THEN "parse_program.close" ELSE "parse_program.dbg")
       /\ UNCHANGED <<parser, marks, ret>>
       /\ RuleFrame
    \/ /\ pc = "parse_program.dbg"
       /\ Call("nth", nth(parser, 0), "parse_program.if")
       /\ UNCHANGED marks
       /\ RuleFrame
    \/ /\ pc = "parse_program.if"
       /\ LET r == at(parser, "Keyword")
          IN  IF r.fault = "" /\ ~r.ret
              THEN Call("at", Panicked(r.p, "expected a keyword"), "")
              ELSE Call("at", r, "parse_function")
       /\ UNCHANGED marks
       /\ RuleFrame
    \/ CloseMark("parse_program.close", "Program", "build_tree")

parse_function ==
    \/ /\ pc = "parse_function"
       /\ LET r == at(parser, "Keyword")
          IN  IF r.fault = "" /\ ~r.ret
              THEN Call("at", Panicked(r.p, "assertion failed: p.at(TokenKind::Keyword)"), "")
              ELSE Call("at", r, "parse_function.open")
       /\ UNCHANGED marks
       /\ RuleFrame
    \/ OpenMark("parse_function.open", "parse_function.1")
    \/ Expect("parse_function.1", "Keyword", "parse_function.2")
    \/ Expect("parse_function.2", "Identifier", "parse_function.3")
    \/ Expect("parse_function.3", "OpenParen", "parse_function.4")
    \/ Expect("parse_function.4", "Keyword", "parse_function.5")
    \/ Expect("parse_function.5", "CloseParen", "parse_function.6")
    \/ Expect("parse_function.6", "OpenBrace", "parse_statement")
    \/ Expect("parse_function.7", "CloseBrace", "parse_function.close")
    \/ CloseMark("parse_function.close", "Function", "parse_program.while")

parse_statement ==
    \/ OpenMark("parse_statement", "parse_statement.1")
    \/ Expect("parse_statement.1", "Keyword", "parse_statement.2")
    \/ Expect("parse_statement.2", "Constant", "parse_statement.3")
    \/ Expect("parse_statement.3", "Semicolon", "parse_statement.close")
    \/ CloseMark("parse_statement.close", "Return", "parse_function.7")

\* let tree = parser.build_tree()
BuildTree ==
    /\ pc = "build_tree"
    /\ LET r == build_tree(parser)
       IN  IF r.fault # ""
           THEN Exit(101, r.fault) /\ UNCHANGED tree
           ELSE /\ tree' = r.tree
                /\ Running(IF step = "parse" THEN "parse_stop" ELSE "generate_assembly")
    /\ UNCHANGED <<prep_file, ass_file, assemble, tokens, parser, asm_tree>>
    /\ MainFrame

\* a --parse stop that does not exit
ParseStop_falls_through ==
    /\ pc = "parse_stop"
    /\ prep_file' = FALSE
    /\ Running("generate_assembly")
    /\ UNCHANGED <<ass_file, assemble, tokens, parser, tree, asm_tree>>
    /\ MainFrame

\* if cli.step.parse { ... }
ParseStop ==
    /\ pc = "parse_stop"
    /\ prep_file' = FALSE
    /\ Exit(0, "")
    /\ UNCHANGED <<ass_file, assemble, tokens, parser, tree, asm_tree>>
    /\ MainFrame

\* let asm_tree = generate_assembly(&tree)
GenerateAssembly ==
    /\ pc = "generate_assembly"
    /\ LET r == generate_assembly(tree)
       IN  IF r.fault # ""
           THEN Exit(101, r.fault) /\ UNCHANGED asm_tree
           ELSE /\ asm_tree' = r.value
                /\ Running(IF step = "codegen" THEN "codegen_stop" ELSE "emit_program")
    /\ UNCHANGED <<prep_file, ass_file, assemble, tokens, parser, tree>>
    /\ MainFrame

\* if cli.step.codegen { ... }
CodegenStop ==
    /\ pc = "codegen_stop"
    /\ prep_file' = FALSE
    /\ Exit(0, "")
    /\ UNCHANGED <<ass_file, assemble, tokens, parser, tree, asm_tree>>
    /\ MainFrame

\* fs::write(ass_file, emit_program(&asm_tree))
WriteAssembly ==
    /\ pc = "emit_program"
    /\ ass_file' = [written |-> TRUE, bytes |-> emit_program(asm_tree)]
    /\ Running("remove_file")
    /\ UNCHANGED <<prep_file, assemble, tokens, parser, tree, asm_tree>>
    /\ MainFrame

\* fs::remove_file(prep_file)
RemovePrepFile ==
    /\ pc = "remove_file"
    /\ prep_file' = FALSE
    /\ Running("assemble")
    /\ UNCHANGED <<ass_file, assemble, tokens, parser, tree, asm_tree>>
    /\ MainFrame

\* gcc file.s -o file, then main returns
Assemble ==
    /\ pc = "assemble"
    /\ assemble' = TRUE
    /\ Exit(0, "")
    /\ UNCHANGED <<prep_file, ass_file, tokens, parser, tree, asm_tree>>
    /\ MainFrame

Next ==
    \/ Preprocess \/ Lexing \/ LexStop \/ ParserNew
    \/ parse_program \/ parse_function \/ parse_statement
    \/ BuildTree \/ ParseStop \/ GenerateAssembly \/ CodegenStop
    \/ WriteAssembly \/ RemovePrepFile \/ Assemble

Spec == Init /\ [][Next]_vars

----------------------------------------------------------------------------
(* The lowering and the emission of int main(void){return <constant>;}    *)
(* for many constants (specification SpecLower): main from the return of  *)
(* build_tree on.                                                         *)

\* the constants: every numeral of at most MaxDigits digits, and numerals
\* around 2^16, 2^31, 2^32, 2^33 and 2^64, some with leading zeros
LowerNumerals ==
    UNION {[1..n -> Digit] : n \in 1..MaxDigits}
    \cup {<<"4","2","9","4","9","6","7","2","9">> \o <<d>> : d \in Digit}
    \cup {<<"6","5","5","3","5">>, <<"6","5","5","3","6">>,
          <<"6","5","5","3","7">>,
          <<"1","0","0","0","0","0","0","0","0","0">>,
          <<"2","1","4","7","4","8","3","6","4","7">>,
          <<"2","1","4","7","4","8","3","6","4","8">>,
          <<"3","9","9","9","9","9","9","9","9","9">>,
          <<"4","2","9","4","9","0","1","7","6","0">>,
          <<"4","2","9","4","9","6","7","3","0","0">>,
          <<"4","3","0","0","0","0","0","0","0","0">>,
          <<"8","5","8","9","9","3","4","5","9","2">>,
          <<"8","5","8","9","9","3","4","5","9","9">>,
          <<"9","9","9","9","9","9","9","9","9","9">>,
          <<"1","0","0","0","0","0","0","0","0","0","0">>,
          <<"4","2","9","4","9","6","7","2","9","6","0">>,
          <<"0","4","2","9","4","9","6","7","2","9","5">>,
          <<"0","4","2","9","4","9","6","7","2","9","6">>,
          <<"0","0","0","0","0","0","0","0","0","0","0","2">>,
          <<"1","8","4","4","6","7","4","4","0","7","3","7","0","9","5","5",
            "1","6","1","6">>,
          <<"1","8","4","4","6","7","4","4","0","7","3","7","0","9","5","5",
            "1","6","2","3">>}

\* the event log that parse_program leaves for one function definition
GrammarEvents ==
    <<Open("Program"), Open("Function"), Advance, Advance, Advance, Advance,
      Advance, Advance, Open("Return"), Advance, Advance, Advance, Close,
      Advance, Close, Close>>

InitLower ==
    /\ step \in {"none", "codegen"}
    /\ \E d \in LowerNumerals :
           text = Flatten([FunctionLexemes EXCEPT ![10] = d])
    /\ input = <<>>
    /\ token = <<>>
    /\ tokens = lexer(text).token
    /\ parser = [tokens |-> tokens, pos |-> Len(tokens), fuel |-> FuelCeiling,
                 events |-> GrammarEvents]
    /\ marks = <<>>
    /\ ret = [op |-> "close", val |-> Unit]
    /\ tree = build_tree(parser).tree
    /\ asm_tree = NoProgram
    /\ pc = "generate_assembly"
    /\ exitStatus = 0
    /\ diagnostic = ""
    /\ prep_file = TRUE
    /\ ass_file = NoFile
    /\ assemble = FALSE

NextLower ==
    GenerateAssembly \/ CodegenStop \/ WriteAssembly \/ RemovePrepFile \/ Assemble

SpecLower == InitLower /\ [][NextLower]_vars

----------------------------------------------------------------------------
(* Properties *)

LexerPanic == "byte index 1 is not a char boundary"

SyntaxFaults == {"expected " \o k : k \in TokenKind}

\* the faults of build_tree and of the lowering
TreeFaults ==
    {"assertion failed: last event is Close", "called unwrap on None: pop",
     "called unwrap on None: last_mut", "called unwrap on None: next",
     "assertion failed: stack.len() == 1",
     "assertion failed: tokens.next().is_none()"}
LoweringFaults ==
    {"should have been a program here.", "Should have had a Tree Child",
     "should have been a function.", "could not find identifier",
     "could not find body", "No constant found where one was expected",
     "called unwrap on an Err value"}

\* C1: on every path by which the process ends after the .i file was
\* created (normal completion, an early stop, a syntax fault of expect, the
\* 'expected a keyword' fault, a fault of tree building or lowering), the
\* .i file has been deleted when the process ends.
C1_PrepFileDeletedOnExit ==
    (/\ pc = "exit"
     /\ diagnostic \in {"", "expected a keyword"} \cup SyntaxFaults
                       \cup TreeFaults \cup LoweringFaults)
    => ~prep_file

IsTokenChild(c, kind) == c.tag = "Token" /\ c.token.kind = kind
IsTreeChild(c, kind) == c.tag = "Tree" /\ c.tree.kind = kind

\* a Return tree that holds exactly one Constant token
ReturnOfOneConstant(t) ==
    /\ t.kind = "Return"
    /\ Cardinality({i \in 1..Len(t.children) :
                       IsTokenChild(t.children[i], "Constant")}) = 1

\* a Function tree with the Identifier at index 1 and the Return at index 6
FunctionShape(t) ==
    /\ t.kind = "Function"
    /\ Len(t.children) >= 7
    /\ IsTokenChild(t.children[2], "Identifier")
    /\ t.children[7].tag = "Tree"
    /\ ReturnOfOneConstant(t.children[7].tree)

\* C2 as stated: whenever parse_program completed and build_tree returned, the tree
\* is a Program with exactly one child, a Function tree whose child 1 is
\* the Identifier token and whose child 6 is a Return tree holding exactly
\* one Constant token.
C2_ProgramOfOneFunction ==
    tree # NoTree =>
        /\ tree.kind = "Program"
        /\ Len(tree.children) = 1
        /\ tree.children[1].tag = "Tree"
        /\ FunctionShape(tree.children[1].tree)

\* C2 amended: whenever parse_program completed and build_tree returned,
\* the tree is a Program whose children are all Function trees of that
\* shape, one per function definition of the tokens (none for no tokens,
\* exactly one for the ten tokens of one definition).
C2_ProgramOfFunctions ==
    tree # NoTree =>
        /\ tree.kind = "Program"
        /\ Len(tree.children) * 10 = Len(tokens)
        /\ \A i \in 1..Len(tree.children) :
               /\ tree.children[i].tag = "Tree"
               /\ FunctionShape(tree.children[i].tree)
               /\ Len(tree.children[i].tree.children) = 8
               /\ tree.children[i].tree.children[2].token = tokens[10 * (i - 1) + 2]

C2_Witness ==
    /\ pc = "exit"
    /\ step = "parse"
    /\ tree.kind = "Program"
    /\ Len(tree.children) = 2
    /\ FunctionShape(tree.children[2].tree)

GrammarKinds ==
    <<"Keyword", "Identifier", "OpenParen", "Keyword", "CloseParen",
      "OpenBrace", "Keyword", "Constant", "Semicolon", "CloseBrace">>

\* int <identifier> ( void ) { return <constant> ; }
GrammarMatch(toks) ==
    /\ Len(toks) = Len(GrammarKinds)
    /\ \A i \in 1..Len(toks) : toks[i].kind = GrammarKinds[i]
    /\ toks[1].text = kw_int
    /\ toks[4].text = kw_void
    /\ toks[7].text = kw_return

\* a decimal numeral without its leading zeros
RECURSIVE StripZeros(_)
StripZeros(d) ==
    IF Len(d) > 1 /\ d[1] = "0" THEN StripZeros(Tail(d)) ELSE d

U32Max == <<"4","2","9","4","9","6","7","2","9","5">>

\* numerals of the same length compared digit by digit
RECURSIVE NumeralLeq(_, _)
NumeralLeq(a, b) ==
    IF a = <<>> THEN TRUE
    ELSE IF a[1] # b[1] THEN DigitValue(a[1]) < DigitValue(b[1])
    ELSE NumeralLeq(Tail(a), Tail(b))

\* the value of the numeral is below 2^32
BelowTwoTo32(d) ==
    LET n == StripZeros(d)
    IN  Len(n) < Len(U32Max) \/ (Len(n) = Len(U32Max) /\ NumeralLeq(n, U32Max))

\* the IR of a function named name that returns the constant written d
ExpectedProgram(name, d, asm) ==
    /\ asm.function.identifier = name
    /\ Len(asm.function.instructions) = 2
    /\ asm.function.instructions[1].ins = "Mov"
    /\ asm.function.instructions[1].src.op = "Imm"
    /\ to_string(asm.function.instructions[1].src.value) = StripZeros(d)
    /\ asm.function.instructions[1].dst = Register
    /\ asm.function.instructions[2] = Ret
    /\ (d = <<"2">> => asm.function.instructions[1].src.value = U32(0, 2))
    /\ (d = <<"0", "0", "7">> => asm.function.instructions[1].src.value = U32(0, 7))
    /\ (d = U32Max =>
            asm.function.instructions[1].src.value = U32(Half - 1, Half - 1))

\* .globl _name, the label _name, movl $v into %eax, ret
ExpectedText(name, d) ==
    <<"\t", ".", "g", "l", "o", "b", "l", "\t", "_">> \o name \o <<"\n", "_">>
    \o name \o <<":", "\n", "\t", "m", "o", "v", "l", "\t", "$">>
    \o StripZeros(d)
    \o <<",", " ", "%", "e", "a", "x", "\n", "\t", "r", "e", "t", "\n">>

AfterLowering == {"codegen_stop", "emit_program", "remove_file", "assemble"}
AfterEmission == {"remove_file", "assemble"}

\* the run went through the lowering (and the emission) of a text
LoweredAs(name, d) ==
    /\ pc \in AfterLowering \cup {"exit"} => ExpectedProgram(name, d, asm_tree)
    /\ pc \in AfterEmission \cup {"exit"} /\ step = "none" =>
           /\ ass_file.written
           /\ ass_file.bytes = ExpectedText(name, d)

\* C3 as stated: for every text that matches the grammar, with function
\* name N and constant v, the run not stopped before lowering yields
\* ASMProgram(ASMFunction{N, [Mov{Imm(v), Register}, Ret]}) and writes the
\* directive, the label, the move of $v and the return, in this order.
C3_LoweredForEveryConstant ==
    (/\ GrammarMatch(tokens)
     /\ step \in {"none", "codegen"}
     /\ pc \in AfterLowering \cup {"exit"})
    => LoweredAs(tokens[2].text, tokens[8].text)

\* C3 amended: the same, for a constant below 2^32.
C3_LoweredBelowTwoTo32 ==
    (/\ GrammarMatch(tokens)
     /\ BelowTwoTo32(tokens[8].text)
     /\ step \in {"none", "codegen"}
     /\ pc \in AfterLowering \cup {"exit"})
    => LoweredAs(tokens[2].text, tokens[8].text)

C3_Witness ==
    /\ pc = "exit"
    /\ step = "none"
    /\ GrammarMatch(tokens)
    /\ tokens[8].text = U32Max
    /\ ass_file.bytes = ExpectedText(main_name, U32Max)

Reserved == {kw_void, kw_int, kw_return}

\* the length of the maximal identifier-shaped run that starts s, 0 if none
IdentifierRun(s) ==
    IF s = <<>> \/ ~IsIdentStart(s[1]) THEN 0
    ELSE CHOOSE n \in 1..Len(s) :
             /\ \A i \in 2..n : IsWord(s[i])
             /\ n = Len(s) \/ ~IsWord(s[n + 1])

Kinds(toks) == [i \in 1..Len(toks) |-> toks[i].kind]

\* one turn of the lexer's loop
C4_Turn ==
    LET consumed == Len(input) - Len(input')
        run == Take(input, IdentifierRun(input))
    IN  \* what is left is a suffix of what there was
        /\ input' = Drop(input, consumed)
        \* at most one token is pushed, after those pushed before, and its
        \* text is the lexeme consumed
        /\ \/ token' = token
           \/ /\ Len(token') = Len(token) + 1
              /\ Take(token', Len(token)) = token
              /\ Last(token').text \in {Take(input, consumed), <<>>}
        \* white space gives no token
        /\ is_whitespace(input[1]) => token' = token /\ consumed <= 1
        \* a maximal identifier-shaped run gives one token: a Keyword when
        \* the whole run is a reserved word, an Identifier otherwise
        /\ run # <<>> =>
               /\ token' = Append(token,
                      Token(IF run \in Reserved THEN "Keyword" ELSE "Identifier", run))
               /\ consumed = Len(run)

C4_Samples ==
    pc = "lexer_done" =>
        /\ text = <<"i", "n", "t", "x">> =>
               tokens = <<Token("Identifier", <<"i", "n", "t", "x">>)>>
        /\ text = Flatten(FunctionLexemes) => Kinds(tokens) = GrammarKinds
        /\ \A i \in 1..Len(tokens) :
               /\ tokens[i].kind = "Keyword" => tokens[i].text \in Reserved
               /\ tokens[i].kind = "Identifier" => tokens[i].text \notin Reserved

\* C4: the lexer pushes one token per lexeme in source order and none for
\* white space; a maximal identifier-shaped run is one Keyword exactly when
\* the whole run is void, int or return and one Identifier otherwise; intx
\* is one Identifier; int main(void){return 2;} gives the ten kinds of the
\* grammar.
C4_OneTokenPerLexeme ==
    /\ [](C4_Samples)
    /\ [][pc = "lexer" /\ input # <<>> => C4_Turn]_vars

C4_Witness ==
    /\ pc = "lexer_done"
    /\ text = <<"i", "n", "t", "x">>
    /\ tokens = <<Token("Identifier", <<"i", "n", "t", "x">>)>>

\* the length of the maximal run of digits that starts s
DigitRun(s) ==
    CHOOSE n \in 0..Len(s) :
        /\ \A i \in 1..n : s[i] \in Digit
        /\ n = Len(s) \/ s[n + 1] \notin Digit

\* no token pattern matches at the start of the input: it starts neither
\* with white space, nor with a punctuation token, nor with an identifier,
\* nor with a run of digits that ends at a word boundary
NoPatternMatches(s) ==
    /\ ~is_whitespace(s[1])
    /\ s[1] \notin {"(", ")", "{", "}", ";"}
    /\ ~IsIdentStart(s[1])
    /\ \/ DigitRun(s) = 0
       \/ DigitRun(s) < Len(s) /\ IsWord(s[DigitRun(s) + 1])

\* C5: no turn of the lexer's loop crashes, and where no token pattern
\* matches the turn pushes exactly one ErrorToken with empty text and
\* consumes exactly one character.
C5_ErrorTokenAndOneCharacter ==
    [][pc = "lexer" /\ input # <<>> =>
          /\ pc' # "exit"
          /\ NoPatternMatches(input) =>
                 /\ token' = Append(token, Token("ErrorToken", <<>>))
                 /\ input' = Tail(input)]_vars

\* the lexer returned its tokens to main
LexerReturned == pc \notin {"main", "lexing"} /\ diagnostic # LexerPanic

\* C6: a run whose lexer returned a token sequence holding an ErrorToken
\* never exits with status 0, whatever the stage-stop flag; under --lex the
\* exit status is 1 when an ErrorToken is present and 0 otherwise.
C6_ErrorTokenFailsTheRun ==
    (pc = "exit" /\ LexerReturned) =>
        /\ HasErrorToken(tokens) => exitStatus # 0
        /\ step = "lex" => exitStatus = (IF HasErrorToken(tokens) THEN 1 ELSE 0)

C6_Witness ==
    /\ pc = "exit"
    /\ step = "lex"
    /\ HasErrorToken(tokens)
    /\ Len(tokens) > 5
    /\ exitStatus = 1

ParserSites ==
    {"parser_new", "build_tree"}
    \cup {"parse_program" \o x : x \in {"", ".while", ".dbg", ".if", ".close"}}
    \cup {"parse_function" \o x \o y :
            x \in {"", ".open", ".1", ".2", ".3", ".4", ".5", ".6", ".7", ".close"},
            y \in {"", ".advance"}}
    \cup {"parse_statement" \o x \o y :
            x \in {"", ".1", ".2", ".3", ".close"}, y \in {"", ".advance"}}

\* C7: with --lex the parser is never run, with --parse the lowering is
\* never run, with --codegen no .s file is written, and with any of the
\* three the assembler is never invoked; when the named stage completes
\* without a fault the process exits with status 0 (1 under --lex when an
\* ErrorToken was recorded).
C7_StopsAfterNamedStage ==
    /\ step = "lex" =>
           /\ pc \notin ParserSites \cup {"parse_stop"}
           /\ parser = NoParser /\ tree = NoTree
           /\ pc = "exit" /\ LexerReturned =>
                  exitStatus = (IF HasErrorToken(tokens) THEN 1 ELSE 0)
    /\ step \in {"lex", "parse"} =>
           /\ pc \notin AfterLowering \cup {"generate_assembly"}
           /\ asm_tree = NoProgram
    /\ step = "parse" /\ pc = "exit" /\ tree # NoTree =>
           exitStatus = 0 /\ diagnostic = ""
    /\ step = "codegen" /\ pc = "exit" /\ asm_tree # NoProgram =>
           exitStatus = 0 /\ diagnostic = ""
    /\ step # "none" =>
           /\ pc \notin {"emit_program", "remove_file", "assemble"}
           /\ ~ass_file.written
           /\ ~assemble

C7_Witness ==
    /\ pc = "exit"
    /\ step = "codegen"
    /\ asm_tree # NoProgram
    /\ ~ass_file.written
    /\ exitStatus = 0

\* the kind of the current token, Eof at the end of the tokens
CurrentKind ==
    IF parser.pos < Len(parser.tokens)
    THEN parser.tokens[parser.pos + 1].kind
    ELSE "Eof"

ExpectSites ==
    {"parse_function" \o x : x \in {".1", ".2", ".3", ".4", ".5", ".6", ".7"}}
    \cup {"parse_statement" \o x : x \in {".1", ".2", ".3"}}

\* a step of expect(kind) called at site here
C9_ExpectStep(here, kind) ==
    \/ /\ pc = here
       /\ IF CurrentKind # kind
          THEN /\ pc' = "exit"
               /\ exitStatus' = 1
               /\ diagnostic' = "expected " \o kind
               /\ parser'.events = parser.events
               /\ parser'.pos = parser.pos
               /\ marks' = marks
          ELSE /\ pc' = here \o ".advance"
               /\ parser'.events = parser.events
               /\ parser'.pos = parser.pos
    \/ /\ pc = here \o ".advance"
       /\ pc' \notin {"exit", here, here \o ".advance"}
       /\ parser'.events = Append(parser.events, Advance)
       /\ parser'.pos = parser.pos + 1

\* nothing of the run follows a syntax fault
C9_NothingAfterFault ==
    (pc = "exit" /\ diagnostic \in SyntaxFaults) =>
        /\ exitStatus = 1
        /\ marks # <<>>
        /\ parser.events[marks[1].index + 1] = Open("ErrorTree")
        /\ tree = NoTree
        /\ asm_tree = NoProgram
        /\ ~ass_file.written
        /\ ~assemble

\* C9: when the current token's kind differs from the expected kind (also
\* at the end of the tokens) expect ends the process with a failure status,
\* appends no event, and nothing of the run follows; when the kind matches
\* it appends exactly one Advance and moves the cursor forward by one.
C9_ExpectIsFatal ==
    /\ [](C9_NothingAfterFault)
    /\ [][\A here \in ExpectSites :
             pc \in {here, here \o ".advance"} =>
                 \A kind \in TokenKind :
                     Expect(here, kind, pc') => C9_ExpectStep(here, kind)]_vars
    /\ [][pc = "exit" => UNCHANGED vars]_vars

C9_Witness ==
    /\ pc = "exit"
    /\ diagnostic = "expected Constant"
    /\ exitStatus = 1
    /\ parser.pos = 7
    /\ Len(parser.events) = 10

\* C8: every nth/at call takes one unit of fuel and only advance gives it
\* back, so a rule that keeps calling the lookahead and never advances gets
\* the 'parser is stuck' fault at the first call made with no fuel left,
\* and never loops forever; fuel never goes below zero.
C8_FuelBoundsLookahead ==
    /\ [](parser.fuel \in 0..FuelCeiling)
    /\ [][Lookahead =>
             IF parser.fuel = 0
             THEN /\ pc' = "exit"
                  /\ diagnostic' = "parser is stuck"
                  /\ exitStatus' = 101
             ELSE /\ pc' = "rule"
                  /\ parser'.fuel = parser.fuel - 1]_vars
    /\ [][parser'.fuel > parser.fuel =>
             /\ parser'.fuel = FuelCeiling
             /\ parser'.events = Append(parser.events, Advance)]_vars
    /\ (<>[][Lookahead]_vars => <>(pc = "exit"))

C8_Witness ==
    /\ pc = "exit"
    /\ diagnostic = "parser is stuck"
    /\ parser.fuel = 0
    /\ parser.pos = 1

\* a call of eat(kind) by the rule
EatCall(kind) == Call("eat", eat(parser, kind), "rule") /\ EngineFrame

\* C10 as stated: when the current token's kind differs from kind, eat
\* returns false and the whole parser (pos, events, tokens, fuel) is as
\* before the call.
C10_EatLeavesParserUntouched ==
    [][\A kind \in EngineKinds :
          EatCall(kind) /\ CurrentKind # kind =>
              /\ ret'.op = "eat" /\ ret'.val = FALSE
              /\ parser' = parser]_vars

\* C10 amended: when the current token's kind differs from kind and fuel
\* is left, eat returns false and leaves pos, the events and the tokens as
\* they were, and fuel is one lower; with no fuel left the call ends in the
\* 'parser is stuck' fault.
C10_EatOnlyTakesFuel ==
    [][\A kind \in EngineKinds :
          EatCall(kind) /\ CurrentKind # kind =>
              IF parser.fuel > 0
              THEN /\ pc' = "rule"
                   /\ ret' = [op |-> "eat", val |-> FALSE]
                   /\ parser' = [parser EXCEPT !.fuel = @ - 1]
              ELSE /\ pc' = "exit"
                   /\ diagnostic' = "parser is stuck"
                   /\ parser' = parser]_vars

C10_Witness ==
    /\ pc = "rule"
    /\ ret = [op |-> "eat", val |-> FALSE]
    /\ parser.pos = 1
    /\ parser.events = <<Advance>>
    /\ parser.fuel = FuelCeiling - 1

\* a call of nth(k) by the rule
NthCall(k) == Call("nth", nth(parser, k), "rule") /\ EngineFrame

Depth(events, n) ==
    Cardinality({i \in 1..n : events[i].type = "Open"})
    - Cardinality({i \in 1..n : events[i].type = "Close"})

\* parse_program returned to main
ParseCompleted == pc = "build_tree" \/ tree # NoTree

\* C12: in every state of a parse no prefix of the event log holds more
\* Close events than Open events; once parse_program has completed the log
\* holds as many Close as Open events, starts with the Open of the root
\* (by then of kind Program, no placeholder kind left in the log), ends
\* with the Close of the root, and nothing before that last Close closes
\* the root: the log without its last Close collapses to one tree rooted
\* at the first Open.
C12_EventsWellNested ==
    /\ \A n \in 0..Len(parser.events) : Depth(parser.events, n) >= 0
    /\ ParseCompleted =>
           /\ Len(parser.events) >= 2
           /\ Depth(parser.events, Len(parser.events)) = 0
           /\ parser.events[1] = Open("Program")
           /\ Last(parser.events) = Close
           /\ \A n \in 1..(Len(parser.events) - 1) : Depth(parser.events, n) >= 1
           /\ \A i \in 1..Len(parser.events) :
                  parser.events[i] # Open("ErrorTree")
           /\ marks = <<>>

\* the parse of two function definitions completed
C12_Witness ==
    /\ pc = "build_tree"
    /\ Len(parser.events) = 30
    /\ Depth(parser.events, 12) = 3
    /\ Depth(parser.events, 30) = 0

FunctionTokens(toks) ==
    /\ Kinds(toks) = GrammarKinds
    /\ toks[4].text = kw_void
    /\ toks[7].text = kw_return

\* C14: parse_program completes without a fault only on tokens that match
\* the grammar, the keyword texts it fixes included: every function
\* definition has void between its parentheses and return at the start of
\* its statement.
C14_CompletesOnlyOnGrammar ==
    ParseCompleted =>
        /\ Len(tokens) % 10 = 0
        /\ \A f \in 0..((Len(tokens) \div 10) - 1) :
               FunctionTokens(SubSeq(tokens, 10 * f + 1, 10 * f + 10))

\* a Program tree with exactly one child, a Function tree whose child 1 is
\* an Identifier token and whose child 6 is a Return tree whose child 1 is
\* a Constant token
ProgramOfOneFunction(t) ==
    /\ t.kind = "Program"
    /\ Len(t.children) = 1
    /\ IsTreeChild(t.children[1], "Function")
    /\ HasTokenAt(t.children[1].tree, 1, "Identifier")
    /\ HasTreeAt(t.children[1].tree, 6)
    /\ t.children[1].tree.children[7].tree.kind = "Return"
    /\ HasTokenAt(t.children[1].tree.children[7].tree, 1, "Constant")

\* C15: generate_assembly returns an IR only for a Program tree with
\* exactly one Function child of that shape; for every other tree, a
\* Program with no child or with two or more Function children included,
\* the run ends in a fault of the lowering and main holds no IR.
C15_LowersOnlyOneFunction ==
    /\ asm_tree # NoProgram => ProgramOfOneFunction(tree)
    /\ (/\ tree # NoTree
        /\ ~ProgramOfOneFunction(tree)
        /\ pc \in AfterLowering \cup {"exit"}
        /\ step \in {"none", "codegen"})
       => pc = "exit" /\ diagnostic \in LoweringFaults /\ exitStatus = 101

\* the faults of the lowering that report a tree of an unexpected shape
LoweringStructureFaults == LoweringFaults \ {"called unwrap on an Err value"}

\* C16: whatever the text, the run never ends in the 'parser is stuck'
\* fault, in an integrity fault of build_tree or in a structure fault of
\* the lowering.
C16_NoInternalFaultFromInput ==
    pc = "exit" =>
        diagnostic \notin {"parser is stuck"} \cup TreeFaults
                            \cup LoweringStructureFaults

\* the token leaves of a tree, depth first and left to right
RECURSIVE LeavesFrom(_, _)
LeavesFrom(children, i) ==
    IF i > Len(children) THEN <<>>
    ELSE (IF children[i].tag = "Token"
          THEN <<children[i].token>>
          ELSE LeavesFrom(children[i].tree.children, 1))
         \o LeavesFrom(children, i + 1)

Leaves(t) == LeavesFrom(t.children, 1)

\* C17: after a completed parse the token leaves of the tree that
\* build_tree returned, read depth first and left to right, are exactly
\* the tokens the lexer returned: same kinds, same texts, same order, none
\* dropped or duplicated.
C17_TreeRetainsEveryToken ==
    tree # NoTree =>
        /\ Leaves(tree) = tokens
        /\ parser.tokens = tokens

\* the tree of two differently named functions was built
C17_Witness ==
    /\ tree # NoTree
    /\ Len(tokens) = 20
    /\ tokens[2].text = main_name
    /\ tokens[12].text = <<"x", "_", "1">>
    /\ Leaves(tree)[12] = tokens[12]

\* the steps of the grammar rules that make a lookahead call
LookaheadSites ==
    {"parse_program.dbg", "parse_program.if", "parse_function"} \cup ExpectSites

\* C18: under the grammar rules at most four lookahead calls are made
\* between two advances (and before the first advance or a fault): every
\* lookahead step takes one unit of fuel, every advance refills it, fuel
\* stays between 252 and 256 in every state, and the 'parser is stuck'
\* fault is never reached.
C18_FuelStaysNearCeiling ==
    /\ [](parser.fuel \in (FuelCeiling - 4)..FuelCeiling)
    /\ [](diagnostic # "parser is stuck")
    /\ [][(pc \in LookaheadSites) => (parser.fuel = parser'.fuel + 1)]_vars
    /\ [][(pc \in {here \o ".advance" : here \in ExpectSites}) =>
             (parser'.fuel = FuelCeiling)]_vars
    /\ [][(pc \in ParserSites \ LookaheadSites /\ parser'.fuel # parser.fuel) =>
             (parser'.fuel = FuelCeiling)]_vars

\* the fourth lookahead in a row: the loop of parse_program and the guard
\* of parse_function looked three times at the first token of the second
\* definition, and expect looked once more
C18_Witness ==
    /\ pc = "parse_function.1.advance"
    /\ parser.pos = 10
    /\ parser.fuel = FuelCeiling - 4

\* the number of Advance events in the log
AdvanceCount(events) ==
    Cardinality({i \in 1..Len(events) : events[i] = Advance})

\* C19: in every state of a parse under the grammar rules pos is the
\* number of Advance events in the log and is at most the number of
\* tokens; advance is only ever called with a token left, so its not-at-end
\* assertion never fails; once parse_program has completed the number of
\* Advance events is the number of tokens.
C19_CursorCountsAdvances ==
    /\ parser.pos = AdvanceCount(parser.events)
    /\ parser.pos <= Len(parser.tokens)
    /\ pc \in {here \o ".advance" : here \in ExpectSites} => ~eof(parser)
    /\ diagnostic # "assertion failed: !self.eof()"
    /\ ParseCompleted =>
           /\ eof(parser)
           /\ AdvanceCount(parser.events) = Len(parser.tokens)

\* parse_program returned with the twenty tokens of two definitions
\* consumed
C19_Witness ==
    /\ pc = "build_tree"
    /\ parser.pos = 20
    /\ AdvanceCount(parser.events) = 20
    /\ Len(parser.tokens) = 20

\* three moduli whose product is above 2^32
Moduli == {9973, 10007, 10009}

\* the value of the numeral d modulo m
RECURSIVE NumeralMod(_, _, _)
NumeralMod(d, m, acc) ==
    IF d = <<>> THEN acc
    ELSE NumeralMod(Tail(d), m, (acc * 10 + DigitValue(d[1])) % m)

\* the word v is the value of the numeral d, which is below 2^32: both are
\* below the product of the moduli and leave the same remainders
IsValueOf(v, d) ==
    /\ v.hi \in 0..(Half - 1)
    /\ v.lo \in 0..(Half - 1)
    /\ BelowTwoTo32(d)
    /\ \A m \in Moduli :
           ((v.hi % m) * (Half % m) + v.lo) % m = NumeralMod(d, m, 0)

\* C20: for a Constant token whose decimal value is v, the lowering gives
\* Mov{Imm(v), Register} with exactly that value when v < 2^32 and ends in
\* a fault, with no IR and no .s file, when v >= 2^32; the immediate is
\* never v modulo 2^32, and the text written is $v in decimal.
C20_ImmediateIsExactOrFault ==
    pc # "generate_assembly" =>
        IF BelowTwoTo32(tokens[8].text)
        THEN /\ diagnostic = ""
             /\ Len(asm_tree.function.instructions) = 2
             /\ asm_tree.function.instructions[1].ins = "Mov"
             /\ asm_tree.function.instructions[1].src.op = "Imm"
             /\ IsValueOf(asm_tree.function.instructions[1].src.value,
                          tokens[8].text)
             /\ asm_tree.function.instructions[1].dst = Register
             /\ ass_file.written =>
                    ass_file.bytes = ExpectedText(main_name, tokens[8].text)
        ELSE /\ pc = "exit"
             /\ exitStatus = 101
             /\ diagnostic = "called unwrap on an Err value"
             /\ asm_tree = NoProgram
             /\ ~ass_file.written

\* 2^32 + 2, which modulo 2^32 would be 2, ended the lowering in its fault
C20_Witness ==
    /\ pc = "exit"
    /\ tokens[8].text = <<"4","2","9","4","9","6","7","2","9","8">>
    /\ diagnostic = "called unwrap on an Err value"
    /\ asm_tree = NoProgram

====
